---- MODULE Spec2Model ----
(***************************************************************************)
(* Population connectivity and lazy-instantiation engine of cnmodel        *)
(* (cnmodel/populations/population.py).                                    *)
(*                                                                         *)
(* A Population owns a fixed-size record array of cells.  Cells start      *)
(* virtual (cell slot 0), are realized on demand by create_cells, and get  *)
(* their presynaptic inputs wired once by resolve_inputs, which selects    *)
(* presynaptic partners in every connected population through select.      *)
(*                                                                         *)
(* Python runs one call at a time.  resolve_inputs is modelled by an       *)
(* explicit activation stack: while the stack is non-empty only the steps  *)
(* of the running call are enabled, so no other operation interleaves.     *)
(* A step wires one cell (ResolveCell) or enters one recursive call        *)
(* (Recurse); activations with nothing left to do end within the step.     *)
(* Every other operation is one atomic action.                             *)
(*                                                                         *)
(* Arithmetic on probability masses is exact (integers with an implicit    *)
(* common denominator); floating-point rounding and underflow are not      *)
(* modelled.  A division 0/0 is modelled as NaN (see FullDist).            *)
(***************************************************************************)
EXTENDS Integers, Sequences, FiniteSets, TLC

\* ------------------------------------------------------------------ bounds
\* number of cells of every population (the `size` constructor argument)
PopSize == 2
\* total number of declared edges (connect calls are otherwise unbounded)
MaxEdges == 2
\* largest `depth` argument of a top-level resolve_inputs call
MaxDepth == 3
\* np.random.uniform draws are k/Grid for k in 0..Grid-1
Grid == 4
\* the fixed integer convergence of the data table
NConv == 2
\* number of requests the driver makes: one per call, and one per
\* population named in a connect call
MaxCalls == 4
\* number of times the driver reads the sound of a stimulus
MaxReads == 2

\* ------------------------------------------------------------ populations
Pops == {"A", "B", "C"}

CellIds == 0 .. (PopSize - 1)

\* np.zeros leaves 0 in the object fields 'cell' and 'connections'
Zero == [zero |-> 0]

\* the object returned by the gen-th create_cell call for cell idx of pop
CellObj(pop, idx, gen) == [pop |-> pop, idx |-> idx, gen |-> gen]

RECURSIVE Pow2(_)
Pow2(n) == IF n = 0 THEN 1 ELSE 2 * Pow2(n - 1)

\* the 'cf' field of cell i: fmin * s**i with fmin = 1, s = 2
getfreq(i) == Pow2(i)

\* ---------------------------------------------------------------- helpers
RECURSIVE SumSeq(_)
SumSeq(s) == IF s = <<>> THEN 0 ELSE Head(s) + SumSeq(Tail(s))

\* np.cumsum
RECURSIVE CumSum(_)
CumSum(s) ==
    IF s = <<>> THEN <<>>
    ELSE LET c == CumSum(SubSeq(s, 1, Len(s) - 1))
         IN  Append(c, (IF c = <<>> THEN 0 ELSE c[Len(c)]) + s[Len(s)])

Abs(x) == IF x < 0 THEN -x ELSE x

Min(S) == CHOOSE x \in S : \A y \in S : x <= y

\* the elements of a sequence
Range(s) == { s[k] : k \in 1 .. Len(s) }

\* number of occurrences of x in the sequence s
Count(s, x) == Cardinality({ k \in 1 .. Len(s) : s[k] = x })

\* non-decreasing sequences of length n over S (vals after vals.sort())
SortedSeqs(S, n) ==
    { s \in [1 .. n -> S] : \A k \in 1 .. n - 1 : s[k] <= s[k + 1] }

\* ----------------------------------------------------------------- select
\* Selection criteria (the **kwds of select) are a sequence of
\* <<field, criterion>> pairs in dict order.  A criterion is
\*   [kind |-> "scalar",    value |-> v]   a number (nearest match)
\*   [kind |-> "rv_frozen", scale |-> c]   scipy.stats.lognorm(range, scale=c)
\*   [kind |-> "ndarray",   arr   |-> w]   one weight per cell
\*   [kind |-> "other"]                    anything else
Scalar(v) == [kind |-> "scalar", value |-> v]
Lognorm(c) == [kind |-> "rv_frozen", scale |-> c]
NdArray(w) == [kind |-> "ndarray", arr |-> w]

RECURSIVE Log2(_)
Log2(x) == IF x <= 1 THEN 0 ELSE 1 + Log2(x \div 2)

\* exp(-ln(x/scale)^2 / (2 s^2)) as a function of the distance in octaves:
\* largest at the scale, decreasing, and strictly positive
Kernel(k) == IF k = 0 THEN 4 ELSE IF k = 1 THEN 3 ELSE 2

\* dist.pdf(x) of lognorm(s, scale): Kernel / x, times the common factor
\* getfreq(PopSize) that keeps it an integer
LognormPdf(scale, x) ==
    (getfreq(PopSize) \div x) * Kernel(Abs(Log2(x) - Log2(scale)))

\* dens = np.diff(vals); dens = np.concatenate([dens[:1], dens])
Dens(vals) ==
    IF Len(vals) < 2 THEN <<>>
    ELSE [k \in 1 .. Len(vals) |->
            IF k = 1 THEN vals[2] - vals[1] ELSE vals[k] - vals[k - 1]]

\* pdf = dist.pdf(vals) * dens
PdfMass(dist, vals) ==
    LET dens == Dens(vals)
    IN  [k \in 1 .. Len(dens) |-> LognormPdf(dist.scale, vals[k]) * dens[k]]

\* One pass of the loop over kwds.items().  st.w is full_dist up to a
\* positive common factor, st.nan says that full_dist is all NaN.
Criterion(st, vals, item) ==
    LET dist == item[2] IN
    IF st.raised # "none" THEN st
    ELSE IF dist.kind = "scalar" THEN
        IF st.nearest # <<>> THEN [st EXCEPT !.raised = "Exception"]
        ELSE [st EXCEPT !.nearest = <<dist.value>>, !.nearest_field = item[1]]
    ELSE IF dist.kind = "rv_frozen" THEN
        LET pdf == PdfMass(dist, vals) IN
        IF Len(pdf) # Len(st.w) THEN [st EXCEPT !.raised = "ValueError"]
        ELSE IF SumSeq(pdf) = 0 THEN [st EXCEPT !.nan = TRUE]
        ELSE [st EXCEPT !.w = [k \in 1 .. Len(st.w) |-> st.w[k] * pdf[k]]]
    ELSE IF dist.kind = "ndarray" THEN
        IF Len(dist.arr) # Len(st.w) THEN [st EXCEPT !.raised = "ValueError"]
        ELSE [st EXCEPT !.w = [k \in 1 .. Len(st.w) |-> st.w[k] * dist.arr[k]]]
    ELSE [st EXCEPT !.raised = "TypeError"]

RECURSIVE FullDistLoop(_, _, _)
FullDistLoop(st, vals, kwds) ==
    IF kwds = <<>> THEN st
    ELSE FullDistLoop(Criterion(st, vals, Head(kwds)), vals, Tail(kwds))

\* full_dist, nearest and nearest_field after the loop over the criteria
FullDist(vals, kwds) ==
    FullDistLoop([w |-> [k \in 1 .. Len(vals) |-> 1], nan |-> FALSE,
                  nearest |-> <<>>, nearest_field |-> "",
                  raised |-> "none"], vals, kwds)

\* variant: err[mask] = inf is left out
ArgMin_NoMask(err, mask) ==
    LET m == Min({ err[k] : k \in 1 .. Len(err) })
    IN  Min({ k \in 1 .. Len(err) : err[k] = m }) - 1

\* np.argmin(err) where err[mask] = inf: the first unmasked cell of least
\* err, and cell 0 when every entry is inf
ArgMin(err, mask) ==
    LET free == { k \in 1 .. Len(err) : ~mask[k] } IN
    IF free = {} THEN 0
    ELSE LET m == Min({ err[k] : k \in free })
         IN  Min({ k \in free : err[k] = m }) - 1

\* the loop `for i in range(size)` of the nearest-match branch
RECURSIVE NearestLoop(_, _, _)
NearestLoop(err, mask, size) ==
    IF size <= 0 THEN <<>>
    ELSE LET cell == ArgMin(err, mask)
         IN  <<cell>> \o NearestLoop(err, [mask EXCEPT ![cell + 1] = TRUE],
                                     size - 1)

SelectNearest(fd, vals, size) ==
    NearestLoop([k \in 1 .. Len(vals) |-> Abs(vals[k] - fd.nearest[1])],
                [k \in 1 .. Len(vals) |-> ~fd.nan /\ fd.w[k] = 0], size)

\* u = np.argwhere(cumulative >= val) for val = v / Grid, with
\* cumulative = cumsum(full_dist / full_dist.sum())
ArgWhere(cum, total, v) ==
    { k \in 1 .. Len(cum) : cum[k] * Grid >= v * total }

RECURSIVE RandomLoop(_, _, _)
RandomLoop(cum, total, uvals) ==
    IF uvals = <<>> THEN <<>>
    ELSE LET u == ArgWhere(cum, total, Head(uvals))
         IN  (IF u # {} THEN <<Min(u) - 1>> ELSE <<>>)
                 \o RandomLoop(cum, total, Tail(uvals))

\* variant: a cell drawn more than once is returned once
SelectRandom_Unique(fd, uvals) ==
    LET total == SumSeq(fd.w) IN
    IF fd.nan \/ total = 0 THEN <<>>
    ELSE LET R == Range(RandomLoop(CumSum(fd.w), total, uvals))
         IN  [k \in 1 .. Cardinality(R) |->
                CHOOSE x \in R : Cardinality({y \in R : y < x}) = k - 1]

\* the random branch; uvals are the sorted uniform draws.  A zero sum
\* makes full_dist NaN and no comparison with NaN holds.
SelectRandom(fd, uvals) ==
    LET total == SumSeq(fd.w) IN
    IF fd.nan \/ total = 0 THEN <<>>
    ELSE RandomLoop(CumSum(fd.w), total, uvals)

\* the values np.random.uniform(size=size) can return, sorted: drawn in the
\* random branch only
UniformDraws(vals, size, kwds) ==
    IF Len(kwds) = 0 \/ FullDist(vals, kwds).raised # "none"
          \/ FullDist(vals, kwds).nearest # <<>>
    THEN {<<>>}
    ELSE SortedSeqs(0 .. Grid - 1, size)

\* variant: the test len(kwds) == 0 is left out
SelectCells_NoCheck(vals, size, kwds, uvals) ==
    LET fd == FullDist(vals, kwds) IN
    IF fd.raised # "none" THEN [raised |-> fd.raised, cells |-> <<>>]
    ELSE IF fd.nearest # <<>>
         THEN [raised |-> "none", cells |-> SelectNearest(fd, vals, size)]
         ELSE [raised |-> "none", cells |-> SelectRandom(fd, uvals)]

\* select() up to `if create:`: the exception raised ("none" if none) and
\* the list of selected indexes.  vals is the field the criteria read.
SelectCells(vals, size, kwds, uvals) ==
    IF Len(kwds) = 0 THEN [raised |-> "TypeError", cells |-> <<>>]
    ELSE LET fd == FullDist(vals, kwds) IN
         IF fd.raised # "none" THEN [raised |-> fd.raised, cells |-> <<>>]
         ELSE IF fd.nearest # <<>>
              THEN [raised |-> "none", cells |-> SelectNearest(fd, vals, size)]
              ELSE [raised |-> "none", cells |-> SelectRandom(fd, uvals)]

\* ------------------------------------------------------------------ state
VARIABLES
    cells,              \* _cells: per population, the record of every cell
    cell_indexes,       \* _cell_indexes: per population, cell object -> index
    pre_connections,    \* _pre_connections: populations connecting to this one
    post_connections,   \* _post_connections: populations this one connects to
    stack,              \* the running resolve_inputs activations, innermost last
    synapses,           \* per cell, the pre_cell.connect(cell) calls made onto it
    ncreate,            \* per cell, the number of create_cell calls made for it
    last,               \* the driver's last call and its outcome
    ncalls,             \* the number of requests the driver has made so far
    sound,              \* the stimulus object (cnmodel/util/sound.py)
    rng                 \* np.random: the values drawn from it so far

vars == <<cells, cell_indexes, pre_connections, post_connections, stack,
          synapses, ncreate, last, ncalls, sound, rng>>

\* no stimulus has been constructed
NoSound ==
    [cls |-> "", kwds |-> <<>>, status |-> "none", raised |-> "none",
     raisedby |-> "", opts |-> <<>>, _time |-> <<>>, _sound |-> <<>>,
     ngenerate |-> 0, nreads |-> 0, ret |-> <<>>, dbspl |-> <<>>,
     copy |-> <<>>]

\* what realization touches
Heap == [cells |-> cells, cell_indexes |-> cell_indexes, ncreate |-> ncreate]

\* before the driver's first call
NoCall ==
    [op |-> "__init__", pop |-> "", depth |-> 0, status |-> "returned",
     ret |-> <<>>, todo0 |-> <<>>, real0 |-> {}]

\* variant: ids count from 1
CellRec_IdFromOne(i) ==
    [id |-> i + 1, cell |-> Zero, input_resolved |-> FALSE,
     connections |-> Zero, cf |-> getfreq(i)]

\* a row of np.zeros(size, dtype=fields) after _cells['id'] = np.arange(size)
\* and the subclass's _cells['cf'] = freqs
CellRec(i) ==
    [id |-> i, cell |-> Zero, input_resolved |-> FALSE,
     connections |-> Zero, cf |-> getfreq(i)]

\* Population.__init__
Init ==
    /\ cells = [p \in Pops |-> [i \in CellIds |-> CellRec(i)]]
    /\ cell_indexes = [p \in Pops |-> <<>>]
    /\ pre_connections = [p \in Pops |-> <<>>]
    /\ post_connections = [p \in Pops |-> <<>>]
    /\ stack = <<>>
    /\ synapses = [p \in Pops |-> [i \in CellIds |-> <<>>]]
    /\ ncreate = [p \in Pops |-> [i \in CellIds |-> 0]]
    /\ last = NoCall
    /\ ncalls = 0
    /\ sound = NoSound
    /\ rng = 0

\* len(self._cells)
Size(c, p) == Cardinality(DOMAIN c[p])

\* self._cells['cf'] as a sequence
FieldCf(c, p) == [k \in 1 .. Size(c, p) |-> c[p][k - 1].cf]

\* np.argwhere(mask)[:,0]: the indexes satisfying mask, ascending
RECURSIVE ArgWhereIdx(_, _)
ArgWhereIdx(S, n) ==
    IF n = 0 THEN <<>>
    ELSE ArgWhereIdx(S, n - 1) \o (IF (n - 1) \in S THEN <<n - 1>> ELSE <<>>)

real_cells(c, p) ==
    ArgWhereIdx({ i \in DOMAIN c[p] : c[p][i].cell # Zero }, Size(c, p))

\* variant: the input_resolved test is left out
unresolved_cells_AllReal(c, p) ==
    ArgWhereIdx({ i \in DOMAIN c[p] : c[p][i].cell # Zero }, Size(c, p))

unresolved_cells(c, p) ==
    ArgWhereIdx({ i \in DOMAIN c[p] :
                    c[p][i].cell # Zero /\ c[p][i].input_resolved = FALSE },
                Size(c, p))

\* `last` describes the driver's last call: the operation, the population
\* it was called on, the depth argument of resolve_inputs (0 otherwise),
\* its status ("running", "returned" or the exception raised), the value
\* returned, and the unresolved and the real cells of the population when
\* the call started.
Call(c, op, p, depth, status, ret) ==
    [op |-> op, pop |-> p, depth |-> depth, status |-> status, ret |-> ret,
     todo0 |-> unresolved_cells(c, p), real0 |-> Range(real_cells(c, p))]

\* the subclass's create_cell: a new object on every call
create_cell(h, p, i) == CellObj(p, i, h.ncreate[p][i] + 1)

\* variant: a realized cell is created again
CreateOne_NoSkip(h, p, i) ==
    LET cell == create_cell(h, p, i) IN
    [cells |-> [h.cells EXCEPT ![p][i].cell = cell],
     cell_indexes |-> [h.cell_indexes EXCEPT
                         ![p] = [o \in DOMAIN @ \cup {cell} |->
                                   IF o = cell THEN i ELSE @[o]]],
     ncreate |-> [h.ncreate EXCEPT ![p][i] = @ + 1]]

\* variant: creating a cell writes a fresh row
CreateOne_Reinit(h, p, i) ==
    LET cell == create_cell(h, p, i) IN
    [cells |-> [h.cells EXCEPT ![p][i] = [CellRec(i) EXCEPT !.cell = cell]],
     cell_indexes |-> [h.cell_indexes EXCEPT
                         ![p] = [o \in DOMAIN @ \cup {cell} |->
                                   IF o = cell THEN i ELSE @[o]]],
     ncreate |-> [h.ncreate EXCEPT ![p][i] = @ + 1]]

\* one pass of the loop of create_cells
CreateOne(h, p, i) ==
    IF h.cells[p][i].cell # Zero THEN h
    ELSE LET cell == create_cell(h, p, i) IN
         [cells |-> [h.cells EXCEPT ![p][i].cell = cell],
          cell_indexes |-> [h.cell_indexes EXCEPT
                              ![p] = [o \in DOMAIN @ \cup {cell} |->
                                        IF o = cell THEN i ELSE @[o]]],
          ncreate |-> [h.ncreate EXCEPT ![p][i] = @ + 1]]

RECURSIVE create_cells(_, _, _)
create_cells(h, p, cell_inds) ==
    IF cell_inds = <<>> THEN h
    ELSE create_cells(CreateOne(h, p, Head(cell_inds)), p, Tail(cell_inds))

\* variant: the create argument is ignored
get_cell_AlwaysCreate(h, p, i, create) ==
    LET h2 == IF h.cells[p][i].cell = Zero
              THEN create_cells(h, p, <<i>>) ELSE h
    IN  [heap |-> h2, ret |-> h2.cells[p][i].cell]

\* get_cell: the heap after the call and the value returned
get_cell(h, p, i, create) ==
    LET h2 == IF create /\ h.cells[p][i].cell = Zero
              THEN create_cells(h, p, <<i>>) ELSE h
    IN  [heap |-> h2, ret |-> h2.cells[p][i].cell]

\* ------------------------------------------------------------ data tables
\* data.get('convergence', species, pre_type, post_type): a fixed integer,
\* a (mean, sd) pair, or no entry (KeyError).  Every population is of its
\* own type.
Convergence(pre, post) ==
    IF <<pre, post>> = <<"C", "A">> THEN [kind |-> "KeyError"]
    ELSE IF <<pre, post>> = <<"A", "C">> THEN [kind |-> "tuple"]
    ELSE [kind |-> "int", n |-> NConv]

\* data.get('convergence_range', species, pre_type, post_type)
ConvergenceRange(pre, post) ==
    IF <<pre, post>> = <<"C", "B">> THEN [kind |-> "KeyError"]
    ELSE [kind |-> "float"]

\* the sizes connection_stats can return: n_connections itself, or
\* int(max(0, size_dist.rvs())) for a (mean, sd) pair
StatSizes(pre, post) ==
    IF Convergence(pre, post).kind = "int" THEN {Convergence(pre, post).n}
    ELSE 0 .. NConv

\* connection_stats: the exception raised and the dist returned
connection_stats(self, pop, cell_rec) ==
    IF Convergence(pop, self).kind = "KeyError"
        \/ ConvergenceRange(pop, self).kind = "KeyError"
    THEN [raised |-> "TypeError", dist |-> <<>>]
    ELSE [raised |-> "none", dist |-> << <<"cf", Lognorm(cell_rec.cf)>> >>]

\* -------------------------------------------------------- top-level calls
Idle == stack = <<>>

\* the driver makes a call that counts for n requests
Enter(n) ==
    /\ Idle
    /\ ncalls + n <= MaxCalls
    /\ ncalls' = ncalls + n

SetHeap(h) ==
    /\ cells' = h.cells
    /\ cell_indexes' = h.cell_indexes
    /\ ncreate' = h.ncreate

\* the index lists and criteria the driver passes
IndexLists == UNION { [1 .. n -> CellIds] : n \in 1 .. 2 }

KwdsSet ==
    { <<>>,
      << <<"cf", Scalar(getfreq(0))>> >>,
      << <<"cf", Lognorm(getfreq(1))>> >> }

\* the number of edges declared so far
NEdges ==
    Len(post_connections["A"]) + Len(post_connections["B"])
        + Len(post_connections["C"])

PopLists == UNION { [1 .. n -> Pops] : n \in 1 .. 2 }

\* create_cells(cell_inds)
CreateCells(p, cell_inds) ==
    /\ Enter(1)
    /\ SetHeap(create_cells(Heap, p, cell_inds))
    /\ last' = Call(cells, "create_cells", p, 0, "returned", <<>>)
    /\ UNCHANGED <<rng, sound, pre_connections, post_connections, stack, synapses>>

\* get_cell(i, create)
GetCell(p, i, create) ==
    /\ Enter(1)
    /\ SetHeap(get_cell(Heap, p, i, create).heap)
    /\ last' = Call(cells, "get_cell", p, 0, "returned",
                    get_cell(Heap, p, i, create).ret)
    /\ UNCHANGED <<rng, sound, pre_connections, post_connections, stack, synapses>>

\* what select(size, **kwds) can do, over all uniform draws: the
\* exception raised and the list of selected indexes
SelectOutcomes(vals, size, kwds) ==
    { SelectCells(vals, size, kwds, uvals) :
        uvals \in UniformDraws(vals, size, kwds) }

\* select(size, create, **kwds)
Select(p, size, create, kwds) ==
    /\ Enter(1)
    /\ \E r \in SelectOutcomes(FieldCf(cells, p), size, kwds) :
        /\ SetHeap(IF create /\ r.raised = "none"
                   THEN create_cells(Heap, p, r.cells) ELSE Heap)
        /\ last' = Call(cells, "select", p, 0,
                        IF r.raised = "none" THEN "returned" ELSE r.raised,
                        r.cells)
    /\ UNCHANGED <<rng, sound, pre_connections, post_connections, stack, synapses>>

\* variant: a population named twice is recorded once as a predecessor
Connect_PreOnce(p, pops) ==
    /\ Enter(Len(pops))
    /\ NEdges + Len(pops) <= MaxEdges
    /\ post_connections' = [post_connections EXCEPT ![p] = @ \o pops]
    /\ pre_connections' =
         [q \in Pops |-> pre_connections[q]
                            \o (IF q \in Range(pops) THEN <<p>> ELSE <<>>)]
    /\ last' = Call(cells, "connect", p, 0, "returned", <<>>)
    /\ UNCHANGED <<rng, sound, cells, cell_indexes, ncreate, stack, synapses>>

\* connect(*pops)
Connect(p, pops) ==
    /\ Enter(Len(pops))
    /\ NEdges + Len(pops) <= MaxEdges
    /\ post_connections' = [post_connections EXCEPT ![p] = @ \o pops]
    /\ pre_connections' =
         [q \in Pops |-> pre_connections[q] \o [k \in 1 .. Count(pops, q) |-> p]]
    /\ last' = Call(cells, "connect", p, 0, "returned", <<>>)
    /\ UNCHANGED <<rng, sound, cells, cell_indexes, ncreate, stack, synapses>>

\* --------------------------------------------------------- resolve_inputs
\* variant: the loop runs over every real cell, resolved or not
Frame_AllReal(c, p, depth) ==
    [pop |-> p, depth |-> depth, todo |-> real_cells(c, p),
     k |-> 1, r |-> 1]

\* An activation of resolve_inputs: todo is the value of unresolved_cells()
\* at its start, k the position in todo of the next cell to wire, r the
\* position in self.pre_connections of the next population to recurse
\* into.  No connect runs during a call, so the copy self.pre_connections
\* equals _pre_connections.
Frame(c, p, depth) ==
    [pop |-> p, depth |-> depth, todo |-> unresolved_cells(c, p),
     k |-> 1, r |-> 1]

\* variant: the recursion stops one level early
Recursing_OffByOne(depth) == depth > 2

\* if depth > 1
Recursing(depth) == depth > 1

\* the activation has run to its end
Finished(f, pre) ==
    /\ f.k > Len(f.todo)
    /\ ~Recursing(f.depth) \/ f.r > Len(pre[f.pop])

\* control returns to the innermost activation that has work left
RECURSIVE Unwind(_, _)
Unwind(stk, pre) ==
    IF stk # <<>> /\ Finished(stk[Len(stk)], pre)
    THEN Unwind(SubSeq(stk, 1, Len(stk) - 1), pre)
    ELSE stk

\* stack and last after a step that leaves the activations stk
Continue(stk) ==
    /\ stack' = Unwind(stk, pre_connections)
    /\ last' = IF Unwind(stk, pre_connections) = <<>>
               THEN [last EXCEPT !.status = "returned"] ELSE last

\* the exception exc propagates to the driver
Raise(exc) ==
    /\ stack' = <<>>
    /\ last' = [last EXCEPT !.status = exc]

Top == stack[Len(stack)]

\* resolve_inputs(depth), called by the driver
ResolveInputs(p, depth) ==
    /\ Enter(1)
    /\ LET stk == Unwind(<<Frame(cells, p, depth)>>, pre_connections) IN
        /\ stack' = stk
        /\ last' = Call(cells, "resolve_inputs", p, depth,
                        IF stk = <<>> THEN "returned" ELSE "running", <<>>)
    /\ UNCHANGED <<rng, sound, cells, cell_indexes, ncreate, pre_connections,
                   post_connections, synapses>>

\* variant: pop.get_cell(j, create=False)
RECURSIVE ConnectLoop_NoCreate(_, _, _, _)
ConnectLoop_NoCreate(st, pop, pre_cells, n) ==
    IF n > Len(pre_cells) THEN st
    ELSE LET g == get_cell(st.heap, pop, pre_cells[n], FALSE) IN
         ConnectLoop_NoCreate(
             [heap |-> g.heap,
              syn |-> Append(st.syn, [pop |-> pop, idx |-> pre_cells[n],
                                      cell |-> g.ret])],
             pop, pre_cells, n + 1)

\* the loop over pre_cells of connect_pop_to_cell: realize each selected
\* cell and form its synapse onto the cell, in order
RECURSIVE ConnectLoop(_, _, _, _)
ConnectLoop(st, pop, pre_cells, n) ==
    IF n > Len(pre_cells) THEN st
    ELSE LET g == get_cell(st.heap, pop, pre_cells[n], TRUE) IN
         ConnectLoop([heap |-> g.heap,
                      syn |-> Append(st.syn, [pop |-> pop, idx |-> pre_cells[n],
                                              cell |-> g.ret])],
                     pop, pre_cells, n + 1)

\* what pop.select(size=size, create=False, **dist) can return for the
\* (size, dist) of connection_stats, or the exception connection_stats
\* raises
StatsOutcomes(c, self, pop, cell_index) ==
    LET stats == connection_stats(self, pop, c[self][cell_index]) IN
    IF stats.raised # "none"
    THEN {[raised |-> stats.raised, cells |-> <<>>]}
    ELSE UNION { SelectOutcomes(FieldCf(c, pop), size, stats.dist) :
                    size \in StatSizes(pop, self) }

\* connect_pop_to_cell(pop, cell_index) when select returns sel: the
\* exception raised, the heap, the synapses onto the cell and the list
\* returned
connect_pop_to_cell(h, syn, self, pop, cell_index, sel) ==
    IF sel.raised # "none"
    THEN [raised |-> sel.raised, heap |-> h, syn |-> syn, pre_cells |-> <<>>]
    ELSE LET st == ConnectLoop([heap |-> h, syn |-> syn], pop, sel.cells, 1)
         IN  [raised |-> "none", heap |-> st.heap, syn |-> st.syn,
              pre_cells |-> sel.cells]

\* connections[pop] = pre_cells
DictSet(d, key, val) ==
    [q \in DOMAIN d \cup {key} |-> IF q = key THEN val ELSE d[q]]

\* variant: an exception discards what was recorded for the cell so far
WirePop_Rollback(st, self, i, pop, sel) ==
    LET r == connect_pop_to_cell(st.heap, st.syn, self, pop, i, sel) IN
    IF r.raised # "none"
    THEN [raised |-> r.raised,
          heap |-> [st.heap EXCEPT !.cells[self][i].connections = <<>>],
          syn |-> st.syn]
    ELSE [raised |-> "none",
          heap |-> [r.heap EXCEPT !.cells[self][i].connections =
                                     DictSet(@, pop, r.pre_cells)],
          syn |-> r.syn]

\* one pass of `for pop in self._pre_connections` for cell i, from the
\* state st = (raised, heap, syn) and the selection sel
WirePop(st, self, i, pop, sel) ==
    LET r == connect_pop_to_cell(st.heap, st.syn, self, pop, i, sel) IN
    IF r.raised # "none" THEN [st EXCEPT !.raised = r.raised]
    ELSE [raised |-> "none",
          heap |-> [r.heap EXCEPT !.cells[self][i].connections =
                                     DictSet(@, pop, r.pre_cells)],
          syn |-> r.syn]

\* the states the loop over _pre_connections can end in, from position j
\* on; an exception ends the loop
RECURSIVE WireLoop(_, _, _, _, _)
WireLoop(S, self, i, pre, j) ==
    IF j > Len(pre) THEN S
    ELSE WireLoop(UNION { IF st.raised # "none" THEN {st}
                          ELSE { WirePop(st, self, i, pre[j], sel) :
                                   sel \in StatsOutcomes(st.heap.cells, self,
                                                         pre[j], i) } :
                          st \in S },
                  self, i, pre, j + 1)

\* variant: input_resolved is never set
ResolveCellOutcomes_NoMark(h, syn, self, i, pre) ==
    WireLoop({[raised |-> "none",
               heap |-> [h EXCEPT !.cells[self][i].connections = <<>>],
               syn |-> syn]}, self, i, pre, 1)

\* the body of `for i in self.unresolved_cells()`: the states it can end
\* in, with input_resolved set when no exception was raised
ResolveCellOutcomes(h, syn, self, i, pre) ==
    LET start == [raised |-> "none",
                  heap |-> [h EXCEPT !.cells[self][i].connections = <<>>],
                  syn |-> syn]
    IN  { IF st.raised # "none" THEN st
          ELSE [st EXCEPT !.heap.cells[self][i].input_resolved = TRUE] :
          st \in WireLoop({start}, self, i, pre, 1) }

\* one pass of `for i in self.unresolved_cells()`
ResolveCell ==
    /\ ~Idle
    /\ Top.k <= Len(Top.todo)
    /\ LET self == Top.pop
           i == Top.todo[Top.k]
       IN  \E st \in ResolveCellOutcomes(Heap, synapses[self][i], self, i,
                                         pre_connections[self]) :
             /\ SetHeap(st.heap)
             /\ synapses' = [synapses EXCEPT ![self][i] = st.syn]
             /\ IF st.raised # "none" THEN Raise(st.raised)
                ELSE Continue([stack EXCEPT ![Len(stack)].k = @ + 1])
    /\ UNCHANGED <<rng, sound, pre_connections, post_connections, ncalls>>

\* variant: the nested call is made with depth, not depth - 1
Recurse_SameDepth ==
    /\ ~Idle
    /\ Top.k > Len(Top.todo)
    /\ Recursing(Top.depth)
    /\ Top.r <= Len(pre_connections[Top.pop])
    /\ Continue(Append([stack EXCEPT ![Len(stack)].r = @ + 1],
                       Frame(cells, pre_connections[Top.pop][Top.r],
                             Top.depth)))
    /\ UNCHANGED <<rng, sound, cells, cell_indexes, ncreate, pre_connections,
                   post_connections, synapses, ncalls>>

\* pop.resolve_inputs(depth-1) for the next pop of self.pre_connections
Recurse ==
    /\ ~Idle
    /\ Top.k > Len(Top.todo)
    /\ Recursing(Top.depth)
    /\ Top.r <= Len(pre_connections[Top.pop])
    /\ Continue(Append([stack EXCEPT ![Len(stack)].r = @ + 1],
                       Frame(cells, pre_connections[Top.pop][Top.r],
                             Top.depth - 1)))
    /\ UNCHANGED <<rng, sound, cells, cell_indexes, ncreate, pre_connections,
                   post_connections, synapses, ncalls>>

\* ---------------------------------------------------------- specification
Next ==
    \/ \E p \in Pops, cell_inds \in IndexLists : CreateCells(p, cell_inds)
    \/ \E p \in Pops, i \in CellIds, create \in BOOLEAN : GetCell(p, i, create)
    \/ \E p \in Pops, create \in BOOLEAN, kwds \in KwdsSet :
         Select(p, NConv, create, kwds)
    \/ \E p \in Pops, pops \in PopLists : Connect(p, pops)
    \/ \E p \in Pops, depth \in 1 .. MaxDepth : ResolveInputs(p, depth)
    \/ ResolveCell
    \/ Recurse

Spec == Init /\ [][Next]_vars

\* the running call is never suspended (section 5 of the design: no
\* operation suspends), so each of its steps is taken when enabled
Running == ResolveCell \/ Recurse

FairSpec == Spec /\ WF_vars(Running)

\* ------------------------------------------------------- select on its own
\* One call of select on a population of SelSize cells, some of them
\* realized by an earlier create_cells, with criteria of every kind: the
\* arguments are chosen initially and `last` records them, the uniform
\* values drawn and the outcome.
SelSize == PopSize + 1

SelCount == 0 .. SelSize + 1

\* probability arrays: one weight per cell
Weights == [1 .. SelSize -> 0 .. 1]

SelKwds ==
    {<<>>}
    \cup { << <<"cf", Scalar(t)>> >> : t \in 1 .. getfreq(SelSize - 1) }
    \cup { << <<"id", NdArray(w)>>, <<"cf", Scalar(t)>> >> :
             w \in Weights, t \in {getfreq(0), getfreq(SelSize - 1)} }
    \cup { << <<"cf", Scalar(getfreq(0))>>, <<"id", Scalar(0)>> >> }
    \cup { << <<"cf", [kind |-> "other"]>> >> }
    \cup { << <<"cf", Lognorm(getfreq(1))>> >> }
    \cup { << <<"id", NdArray(w)>> >> : w \in Weights }
    \cup { << <<"cf", Lognorm(getfreq(0))>>, <<"id", NdArray(w)>> >> :
             w \in Weights }

\* the populations as constructed, and after create_cells on the cells R
\* of population A
SelFresh ==
    [cells |-> [p \in Pops |-> [i \in 0 .. SelSize - 1 |-> CellRec(i)]],
     cell_indexes |-> [p \in Pops |-> <<>>],
     ncreate |-> [p \in Pops |-> [i \in 0 .. SelSize - 1 |-> 0]]]

SelStart(R) == create_cells(SelFresh, "A", ArgWhereIdx(R, SelSize))

SelInit ==
    /\ last \in { [op |-> "select", pop |-> "A", depth |-> 0,
                    status |-> "called", ret |-> <<>>, todo0 |-> <<>>,
                    real0 |-> R, size |-> size, create |-> create,
                    kwds |-> kwds, uvals |-> <<>>] :
                     R \in {{}, {0}, {SelSize - 1}}, size \in SelCount,
                     create \in BOOLEAN, kwds \in SelKwds }
    /\ cells = SelStart(last.real0).cells
    /\ cell_indexes = SelStart(last.real0).cell_indexes
    /\ ncreate = SelStart(last.real0).ncreate
    /\ pre_connections = [p \in Pops |-> <<>>]
    /\ post_connections = [p \in Pops |-> <<>>]
    /\ stack = <<>>
    /\ synapses = [p \in Pops |-> [i \in 0 .. SelSize - 1 |-> <<>>]]
    /\ ncalls = 0
    /\ sound = NoSound
    /\ rng = 0

\* variant: the selected cells are created whatever create is
SelectCall_AlwaysCreate(p, size, create, kwds) ==
    /\ Enter(1)
    /\ \E uvals \in UniformDraws(FieldCf(cells, p), size, kwds) :
         LET r == SelectCells(FieldCf(cells, p), size, kwds, uvals) IN
         /\ SetHeap(IF r.raised = "none"
                    THEN create_cells(Heap, p, r.cells) ELSE Heap)
         /\ last' = [op |-> "select", pop |-> p, depth |-> 0,
                     status |-> IF r.raised = "none" THEN "returned"
                                ELSE r.raised,
                     ret |-> r.cells,
                     todo0 |-> unresolved_cells(cells, p),
                     real0 |-> Range(real_cells(cells, p)),
                     size |-> size, create |-> create, kwds |-> kwds,
                     uvals |-> uvals]
    /\ UNCHANGED <<rng, sound, pre_connections, post_connections, stack, synapses>>

\* select(size, create, **kwds) when np.random.uniform returns uvals
SelectCall(p, size, create, kwds) ==
    /\ Enter(1)
    /\ \E uvals \in UniformDraws(FieldCf(cells, p), size, kwds) :
         LET r == SelectCells(FieldCf(cells, p), size, kwds, uvals) IN
         /\ SetHeap(IF create /\ r.raised = "none"
                    THEN create_cells(Heap, p, r.cells) ELSE Heap)
         /\ last' = [op |-> "select", pop |-> p, depth |-> 0,
                     status |-> IF r.raised = "none" THEN "returned"
                                ELSE r.raised,
                     ret |-> r.cells,
                     todo0 |-> unresolved_cells(cells, p),
                     real0 |-> Range(real_cells(cells, p)),
                     size |-> size, create |-> create, kwds |-> kwds,
                     uvals |-> uvals]
    /\ UNCHANGED <<rng, sound, pre_connections, post_connections, stack, synapses>>

SelNext ==
    /\ last.status = "called"
    /\ SelectCall(last.pop, last.size, last.create, last.kwds)

SelectSpec == SelInit /\ [][SelNext]_vars

\* ----------------------------------------------------------------- stimuli
\* Sound and its subclasses (cnmodel/util/sound.py).  The keyword arguments
\* of a constructor are a function from parameter names to values.
SoundClasses ==
    {"TonePip", "FMSweep", "NoisePip", "SAMNoise", "ClickTrain", "SAMTone"}

SoundKeys ==
    {"rate", "duration", "f0", "dbspl", "pip_duration", "pip_start",
     "ramp_duration", "start", "freqs", "ramp", "seed", "fmod", "dmod",
     "click_starts", "click_duration"}

\* the names each __init__ tests with `if k not in kwds`
Required(cls) ==
    IF cls = "TonePip"
    THEN {"rate", "duration", "f0", "dbspl", "pip_duration", "pip_start",
          "ramp_duration"}
    ELSE IF cls = "FMSweep"
    THEN {"rate", "duration", "start", "freqs", "ramp", "dbspl"}
    ELSE IF cls = "NoisePip"
    THEN {"rate", "duration", "seed", "pip_duration", "pip_start",
          "ramp_duration"}
    ELSE IF cls = "SAMNoise"
    THEN {"rate", "duration", "seed", "pip_duration", "pip_start",
          "ramp_duration", "fmod", "dmod"}
    ELSE IF cls = "ClickTrain"
    THEN {"click_starts", "click_duration", "dbspl", "rate"}
    ELSE {"rate", "duration", "f0", "dbspl", "ramp_duration", "fmod", "dmod"}

\* the entries of self.opts each generate() passes to its waveform function
GenArgs(cls) ==
    IF cls = "TonePip"
    THEN {"ramp_duration", "rate", "f0", "dbspl", "pip_duration", "pip_start"}
    ELSE IF cls = "FMSweep"
    THEN {"start", "duration", "freqs", "ramp", "rate", "dbspl"}
    ELSE IF cls = "NoisePip"
    THEN {"ramp_duration", "rate", "dbspl", "pip_duration", "pip_start",
          "seed"}
    ELSE IF cls = "SAMNoise"
    THEN {"ramp_duration", "rate", "f0", "pip_duration", "pip_start",
          "dbspl", "fmod", "dmod", "seed"}
    ELSE IF cls = "ClickTrain"
    THEN {"rate", "click_starts", "click_duration", "dbspl"}
    ELSE {"ramp_duration", "rate", "f0", "dbspl", "fmod", "dmod"}

\* what generate() reads: self.time reads duration and rate
Reads(cls) == GenArgs(cls) \cup {"duration", "rate"}

\* the classes whose __init__ compares pip_duration with ramp_duration,
\* f0 with rate, and seed with 0
PipChecked == {"TonePip", "NoisePip", "SAMNoise", "SAMTone"}

F0Checked == {"TonePip", "SAMTone"}

SeedChecked == {"NoisePip", "SAMNoise"}

\* Sound.__init__(self, duration, rate=100e3, **kwds)
DefaultRate == 100000

SoundInit(kwds) ==
    IF "duration" \notin DOMAIN kwds
    THEN [raised |-> "TypeError", opts |-> <<>>]
    ELSE [raised |-> "none",
          opts |-> [k \in DOMAIN kwds \cup {"rate"} |->
                      IF k \in DOMAIN kwds THEN kwds[k] ELSE DefaultRate]]

\* cls(**kwds): the exception raised and self.opts
SoundNew(cls, kwds) ==
    IF ~(Required(cls) \subseteq DOMAIN kwds)
    THEN [raised |-> "TypeError", opts |-> <<>>]
    ELSE IF cls \in PipChecked /\ "pip_duration" \notin DOMAIN kwds
    THEN [raised |-> "KeyError", opts |-> <<>>]
    ELSE IF cls \in PipChecked /\ kwds["pip_duration"] < kwds["ramp_duration"] * 2
    THEN [raised |-> "ValueError", opts |-> <<>>]
    ELSE IF cls \in F0Checked /\ 2 * kwds["f0"] > kwds["rate"]
    THEN [raised |-> "ValueError", opts |-> <<>>]
    ELSE IF cls \in SeedChecked /\ kwds["seed"] < 0
    THEN [raised |-> "ValueError", opts |-> <<>>]
    ELSE SoundInit(kwds)

\* the arguments the driver passes: every parameter or all but one, with
\* values on both sides of each comparison of the constructors
\* the time arguments count 1/TimeDen second, so that int(t * rate) is
\* (t * rate) \div TimeDen
TimeDen == 3

SoundRate == 4

\* the lists given as pip_start and as click_starts
Starts == {<<>>, <<1>>, <<0, 2>>, <<1, 1>>, <<4>>}

BaseKwds ==
    [k \in SoundKeys |->
        IF k = "rate" THEN SoundRate
        ELSE IF k = "duration" THEN 4
        ELSE IF k \in {"pip_start", "click_starts"} THEN <<1>>
        ELSE IF k = "freqs" THEN <<1, 2>>
        ELSE IF k = "ramp" THEN "linear"
        ELSE 1]

\* the keyword arguments the driver passes: every parameter or all but one,
\* then every parameter with the timing varied
SoundKwds ==
    { [k \in SoundKeys \ M |->
          IF k = "f0" THEN f0
          ELSE IF k = "pip_duration" THEN pd
          ELSE IF k = "seed" THEN seed
          ELSE BaseKwds[k]] :
        M \in {{}} \cup {{k} : k \in SoundKeys},
        f0 \in 1 .. SoundRate - 1, pd \in 1 .. 3, seed \in -1 .. 1 }
    \cup
    { [k \in SoundKeys |->
          IF k \in {"pip_start", "click_starts"} THEN st
          ELSE IF k = "pip_duration" THEN pd
          ELSE IF k = "ramp_duration" THEN rd
          ELSE IF k = "click_duration" THEN cd
          ELSE IF k = "seed" THEN seed
          ELSE BaseKwds[k]] :
        st \in Starts, pd \in 0 .. 3, rd \in 0 .. 1, cd \in 0 .. 2,
        seed \in 0 .. 1 }

\* cls(**kwds): the object constructed, or the exception __init__ raised
New(cls, kwds) ==
    LET r == SoundNew(cls, kwds) IN
    [NoSound EXCEPT
       !.cls = cls, !.kwds = kwds,
       !.status = IF r.raised = "none" THEN "constructed" ELSE "rejected",
       !.raised = r.raised, !.raisedby = "__init__",
       !.opts = r.opts]

\* the driver constructs the stimulus
Construct(cls, kwds) ==
    /\ sound.status = "none"
    /\ sound' = New(cls, kwds)
    /\ UNCHANGED <<rng, cells, cell_indexes, pre_connections,
                   post_connections, stack, synapses, ncreate, last, ncalls>>

\* self.opts when generate() has evaluated its arguments: SAMNoise sets
\* phaseshift first
GenOpts(cls, opts) ==
    IF cls = "SAMNoise"
    THEN [k \in DOMAIN opts \cup {"phaseshift"} |->
            IF k = "phaseshift" THEN 0 ELSE opts[k]]
    ELSE opts

\* int(t * Fs), and int(np.floor(t * Fs)), of a time t >= 0
Ticks(t, Fs) == (t * Fs) \div TimeDen

\* num_samples
NumSamples(opts) == 1 + Ticks(opts["duration"], opts["rate"])

\* A sample is the sum of the terms it lists: np.zeros gives samples without
\* a term.  dbspl_to_pa(dbspl) is a positive number.
Silence == <<>>

dbspl_to_pa(dbspl) == [fn |-> "dbspl_to_pa", dbspl |-> dbspl]

\* the loop of clicks(): swave[t0:t1] = dbspl_to_pa(dbspl), the slice ending
\* where swave ends
RECURSIVE ClicksLoop(_, _, _, _, _)
ClicksLoop(swave, Fs, click_starts, click_duration, dbspl) ==
    IF click_starts = <<>> THEN swave
    ELSE LET t0 == Ticks(Head(click_starts), Fs)
             t1 == t0 + Ticks(click_duration, Fs)
         IN  ClicksLoop([i \in 1 .. Len(swave) |->
                            IF t0 <= i - 1 /\ i - 1 < t1
                            THEN <<dbspl_to_pa(dbspl)>> ELSE swave[i]],
                        Fs, Tail(click_starts), click_duration, dbspl)

\* variant: each click ends one sample later
clicks_Inclusive(n, Fs, click_starts, click_duration, dbspl) ==
    IF click_starts = <<>>
    THEN [raised |-> "ValueError", wave |-> <<>>]
    ELSE [raised |-> "none",
          wave |-> [i \in 1 .. n |->
                      IF \E k \in 1 .. Len(click_starts) :
                            /\ Ticks(click_starts[k], Fs) <= i - 1
                            /\ i - 1 <= Ticks(click_starts[k], Fs)
                                          + Ticks(click_duration, Fs)
                      THEN <<dbspl_to_pa(dbspl)>> ELSE Silence]]

\* clicks(t, Fs, click_starts, click_duration, dbspl) with n = t.size;
\* np.max raises ValueError on an empty list
clicks(n, Fs, click_starts, click_duration, dbspl) ==
    IF click_starts = <<>>
    THEN [raised |-> "ValueError", wave |-> <<>>]
    ELSE [raised |-> "none",
          wave |-> ClicksLoop([i \in 1 .. n |-> Silence], Fs, click_starts,
                              click_duration, dbspl)]

\* the pip template: the unramped samples src with the ramp of ramp_pts
\* points applied to both ends (sample k is scaled by point up, and by point
\* down counted from the end)
Ramped(src, ramp_pts) ==
    [k \in 1 .. Len(src) |->
        [src |-> src[k],
         up |-> IF k <= ramp_pts THEN k ELSE 0,
         down |-> IF k > Len(src) - ramp_pts THEN Len(src) - k + 1 ELSE 0]]

\* len(pin[ts:ts+m]) for an array of n samples
SliceLen(n, ts, m) == IF ts >= n THEN 0 ELSE Min({m, n - ts})

\* pin[ts:ts+pip.size] += pip: numpy raises ValueError when the slice is
\* shorter than pip, unless pip has one sample
AddPip(st, ts, pip) ==
    LET L == SliceLen(Len(st.pin), ts, Len(pip)) IN
    IF L # Len(pip) /\ Len(pip) # 1
    THEN [st EXCEPT !.raised = "ValueError"]
    ELSE [st EXCEPT !.pin = [i \in 1 .. Len(st.pin) |->
                               IF ts < i /\ i <= ts + L
                               THEN st.pin[i] \o <<pip[i - ts]>>
                               ELSE st.pin[i]]]

RECURSIVE PipToneLoop(_, _, _, _)
PipToneLoop(st, Fs, pip, pip_start) ==
    IF pip_start = <<>> \/ st.raised # "none" THEN st
    ELSE PipToneLoop(AddPip(st, Ticks(Head(pip_start), Fs), pip), Fs, pip,
                     Tail(pip_start))

\* piptone(t, rt, Fs, F0, dBSPL, pip_dur, pip_start) with n = t.size
piptone(n, rt, Fs, F0, dBSPL, pip_dur, pip_start) ==
    LET pip_pts == Ticks(pip_dur, Fs) + 1
        ramp_pts == Ticks(rt, Fs) + 1
        pip == Ramped([k \in 1 .. pip_pts |->
                         [fn |-> "sin", f0 |-> F0, k |-> k,
                          pa |-> dbspl_to_pa(dBSPL)]], ramp_pts)
        st == PipToneLoop([raised |-> "none",
                           pin |-> [i \in 1 .. n |-> Silence]],
                          Fs, pip, pip_start)
    IN  [raised |-> st.raised,
         wave |-> IF st.raised = "none" THEN st.pin ELSE <<>>]

\* np.random.RandomState(seed): a generator of its own, at the start of the
\* sequence the seed fixes
RandomState(seed) == [seed |-> seed, pos |-> 0]

\* gen.randn(n): the next n values of the generator's sequence
randn(gen, n) ==
    [k \in 1 .. n |-> [fn |-> "randn", seed |-> gen.seed, k |-> gen.pos + k]]

RECURSIVE PipNoiseLoop(_, _, _, _, _, _)
PipNoiseLoop(st, rt, Fs, dBSPL, pip_dur, pip_start) ==
    IF pip_start = <<>> \/ st.raised # "none" THEN st
    ELSE LET pip_pts == Ticks(pip_dur, Fs) + 1
             ramp_pts == Ticks(rt, Fs) + 1
             draws == randn(st.gen, pip_pts)
             pip == Ramped([k \in 1 .. pip_pts |->
                              [fn |-> "noise", x |-> draws[k],
                               pa |-> dbspl_to_pa(dBSPL)]], ramp_pts)
             drawn == [st EXCEPT !.gen.pos = @ + pip_pts]
         IN  PipNoiseLoop(AddPip(drawn, Ticks(Head(pip_start), Fs), pip),
                          rt, Fs, dBSPL, pip_dur, Tail(pip_start))

\* pipnoise(t, rt, Fs, dBSPL, pip_dur, pip_start, seed) with n = t.size
pipnoise(n, rt, Fs, dBSPL, pip_dur, pip_start, seed) ==
    LET st == PipNoiseLoop([raised |-> "none",
                            pin |-> [i \in 1 .. n |-> Silence],
                            gen |-> RandomState(seed)],
                           rt, Fs, dBSPL, pip_dur, pip_start)
    IN  [raised |-> st.raised,
         wave |-> IF st.raised = "none" THEN st.pin ELSE <<>>]

\* the sample-wise functions (chirp, the SAM envelope, the linear ramp) as
\* terms of the sample number and the arguments
Samplewise(fn, n, pin, args) ==
    [i \in 1 .. n |-> <<[fn |-> fn, k |-> i, pin |-> pin[i], args |-> args]>>]

\* modnoise(...): pipnoise, then the envelope and ramp()
modnoise(n, opts) ==
    LET p == pipnoise(n, opts["ramp_duration"], opts["rate"], opts["dbspl"],
                      opts["pip_duration"], opts["pip_start"], opts["seed"])
    IN  IF p.raised # "none" THEN p
        ELSE [raised |-> "none",
              wave |-> Samplewise("modnoise", n, p.wave,
                          [k \in {"ramp_duration", "rate", "fmod", "dmod"}
                              |-> opts[k]])]

\* generate(): the exception raised, or the waveform returned
Generate(cls, opts) ==
    LET n == NumSamples(opts) IN
    IF ~(GenArgs(cls) \subseteq DOMAIN opts)
    THEN [raised |-> "KeyError", wave |-> <<>>]
    ELSE IF cls = "TonePip"
    THEN piptone(n, opts["ramp_duration"], opts["rate"], opts["f0"],
                 opts["dbspl"], opts["pip_duration"], opts["pip_start"])
    ELSE IF cls = "NoisePip"
    THEN pipnoise(n, opts["ramp_duration"], opts["rate"], opts["dbspl"],
                  opts["pip_duration"], opts["pip_start"], opts["seed"])
    ELSE IF cls = "ClickTrain"
    THEN clicks(n, opts["rate"], opts["click_starts"],
                opts["click_duration"], opts["dbspl"])
    ELSE IF cls = "SAMNoise"
    THEN modnoise(n, opts)
    ELSE [raised |-> "none",
          wave |-> Samplewise(cls, n, [i \in 1 .. n |-> Silence],
                              [k \in GenArgs(cls) |-> opts[k]])]

\* the sound property: generate() runs when nothing is cached.  ret is the
\* array the property returns.
sound_get(s) ==
    IF s._sound = <<>>
    THEN LET o == GenOpts(s.cls, s.opts)
             r == Generate(s.cls, o)
         IN  [s EXCEPT !.opts = o, !._time = <<NumSamples(s.opts)>>,
                       !._sound = r.wave, !.ngenerate = @ + 1,
                       !.raised = r.raised, !.raisedby = "generate",
                       !.ret = r.wave]
    ELSE [s EXCEPT !.ret = s._sound]

\* a[istart:iend]
Slice(a, istart, iend) ==
    [k \in 1 .. SliceLen(Len(a), istart, iend - istart) |-> a[istart + k]]

\* variant: the stimulus draws its noise from np.random
ReadSound_SharedSource ==
    /\ sound.status = "constructed"
    /\ sound.nreads < MaxReads
    /\ sound' = [sound_get(sound) EXCEPT !.nreads = @ + 1, !.dbspl = <<>>]
    /\ rng' = rng + (sound_get(sound).ngenerate - sound.ngenerate)
    /\ UNCHANGED <<cells, cell_indexes, pre_connections,
                   post_connections, stack, synapses, ncreate, last, ncalls>>

\* the driver reads the sound property
ReadSound ==
    /\ sound.status = "constructed"
    /\ sound.nreads < MaxReads
    /\ sound' = [sound_get(sound) EXCEPT !.nreads = @ + 1, !.dbspl = <<>>]
    /\ UNCHANGED <<rng, cells, cell_indexes, pre_connections,
                   post_connections, stack, synapses, ncreate, last, ncalls>>

\* measure_dbspl(tstart, tend)
MeasureDbspl(tstart, tend) ==
    /\ sound.status = "constructed"
    /\ sound.nreads < MaxReads
    /\ LET s == sound_get(sound)
           istart == Ticks(tstart, sound.opts["rate"])
           iend == Ticks(tend, sound.opts["rate"])
       IN  sound' = [s EXCEPT
                       !.nreads = @ + 1,
                       !.dbspl = IF s.ret = <<>> THEN <<>>
                                 ELSE <<[fn |-> "pa_to_dbspl",
                                         std |-> Slice(s.ret, istart, iend)]>>]
    /\ UNCHANGED <<rng, cells, cell_indexes, pre_connections,
                   post_connections, stack, synapses, ncreate, last, ncalls>>

\* key()
Key(s) ==
    [k \in DOMAIN s.opts \cup {"type"} |->
        IF k = "type" THEN s.cls ELSE s.opts[k]]

\* variant: rate is left out of the key
Create_DefaultRate(k) ==
    New(k["type"], [x \in DOMAIN k \ {"type", "rate"} |-> k[x]])

\* create(type, **kwds)
Create(k) == New(k["type"], [x \in DOMAIN k \ {"type"} |-> k[x]])

\* the driver builds a second stimulus with create(**sound.key())
Recreate ==
    /\ sound.status = "constructed"
    /\ sound.copy = <<>>
    /\ sound' = [sound EXCEPT !.copy = <<Create(Key(sound))>>]
    /\ UNCHANGED <<rng, cells, cell_indexes, pre_connections,
                   post_connections, stack, synapses, ncreate, last, ncalls>>

SoundNext ==
    \/ \E cls \in SoundClasses, kwds \in SoundKwds : Construct(cls, kwds)
    \/ ReadSound
    \/ \E tstart \in 0 .. 1 : MeasureDbspl(tstart, 3)
    \/ Recreate

SoundSpec == Init /\ [][SoundNext]_vars

\* ------------------------------------------------- the process-wide source
\* np.random is a generator shared by the whole process; rng counts the
\* values drawn from it.  Uniform(k) is value k of its sequence in units of
\* 1/Grid.  Spec and SelectSpec let select draw any values and leave the
\* count alone; DrawSpec follows the sequence.
Uniform(k) == (k * k + k \div 2) % Grid

\* sorted(s)
Sort(s) ==
    CHOOSE t \in SortedSeqs(Range(s), Len(s)) :
        \A x \in Range(s) : Count(t, x) = Count(s, x)

\* size of the predecessor population handed to DStellate.connection_stats
MaxSgc == 7

\* pconn, in hundredths
Pconn == <<45, 45, 10>>

\* the positions of dist['sr'][i::3] in an array of npre entries
Stride(npre, i) == { k \in 1 .. npre : k - 1 >= i /\ (k - 1 - i) % 3 = 0 }

\* for i in range(0, 3): the array st.w, the values drawn so far and the
\* exception raised; pos values had been drawn before.  An array of nsr
\* entries is assigned to a slice of another length only if nsr is 1.
RECURSIVE SrLoop(_, _, _, _)
SrLoop(st, nsr, pos, i) ==
    IF i = 3 \/ st.raised # "none" THEN st
    ELSE LET sel == [j \in 1 .. nsr |->
                        IF 100 * Uniform(pos + st.drawn + j)
                              < Pconn[i + 1] * Grid
                        THEN 1 ELSE 0]
             S == Stride(Len(st.w), i)
             drawn == [st EXCEPT !.drawn = @ + nsr]
         IN  IF Cardinality(S) # nsr /\ nsr # 1
             THEN [drawn EXCEPT !.raised = "ValueError"]
             ELSE SrLoop([drawn EXCEPT
                            !.w = [k \in 1 .. Len(st.w) |->
                                     IF k \in S
                                     THEN sel[IF nsr = 1 THEN 1
                                              ELSE (k - 1 - i) \div 3 + 1]
                                     ELSE st.w[k]]],
                         nsr, pos, i + 1)

\* DStellate.connection_stats(pop, cell_rec) when the default policy gives
\* size: sgc tells whether pop is an SGC population, sr is pop.cells['sr']
DStellate_connection_stats(self, pop, cell_rec, sgc, sr, size, pos) ==
    LET d == connection_stats(self, pop, cell_rec)
        st == SrLoop([raised |-> "none", drawn |-> 0,
                      w |-> [k \in 1 .. Len(sr) |->
                               IF sr[k] < 3 THEN 1 ELSE 0]],
                     Len(sr) \div 3, pos, 0)
    IN  IF d.raised # "none"
        THEN [raised |-> d.raised, size |-> 0, dist |-> <<>>, drawn |-> 0]
        ELSE IF ~sgc
        THEN [raised |-> "none", size |-> size, dist |-> d.dist, drawn |-> 0]
        ELSE [raised |-> st.raised, drawn |-> st.drawn,
              size |-> IF st.raised = "none" THEN size ELSE 0,
              dist |-> IF st.raised = "none"
                       THEN d.dist \o << <<"sr", NdArray(st.w)>> >>
                       ELSE <<>>]

\* before the driver's first call, with the number of values the
\* populations have drawn
DrawNoCall ==
    [op |-> "__init__", pop |-> "", depth |-> 0, status |-> "returned",
     ret |-> <<>>, todo0 |-> <<>>, real0 |-> {}, drawn |-> 0]

DrawInit ==
    /\ cells = [p \in Pops |-> [i \in CellIds |-> CellRec(i)]]
    /\ cell_indexes = [p \in Pops |-> <<>>]
    /\ pre_connections = [p \in Pops |-> <<>>]
    /\ post_connections = [p \in Pops |-> <<>>]
    /\ stack = <<>>
    /\ synapses = [p \in Pops |-> [i \in CellIds |-> <<>>]]
    /\ ncreate = [p \in Pops |-> [i \in CellIds |-> 0]]
    /\ last = DrawNoCall
    /\ ncalls = 0
    /\ sound = NoSound
    /\ rng = 0

\* select(size, create, **kwds): np.random.uniform(size=size) returns the
\* next size values of the process-wide sequence
DrawSelect(p, size, create, kwds) ==
    /\ Enter(1)
    /\ LET vals == FieldCf(cells, p)
           n == IF UniformDraws(vals, size, kwds) = {<<>>} THEN 0 ELSE size
           uvals == Sort([k \in 1 .. n |-> Uniform(rng + k)])
           r == SelectCells(vals, size, kwds, uvals)
       IN  /\ SetHeap(IF create /\ r.raised = "none"
                      THEN create_cells(Heap, p, r.cells) ELSE Heap)
           /\ last' = [op |-> "select", pop |-> p, depth |-> 0,
                       status |-> IF r.raised = "none" THEN "returned"
                                  ELSE r.raised,
                       ret |-> r.cells,
                       todo0 |-> unresolved_cells(cells, p),
                       real0 |-> Range(real_cells(cells, p)),
                       size |-> size, create |-> create, kwds |-> kwds,
                       uvals |-> uvals, drawn |-> last.drawn + n]
           /\ rng' = rng + n
    /\ UNCHANGED <<sound, pre_connections, post_connections, stack, synapses>>

\* self.connection_stats(pop, cell_rec) of a DStellate population self, for
\* a predecessor of npre cells; size_dist.rvs() draws one value
DStellateStats(self, pop, i, sgc, sr) ==
    /\ Enter(1)
    /\ \E size \in StatSizes(pop, self) :
         LET rv == IF Convergence(pop, self).kind = "tuple" THEN 1 ELSE 0
             r == DStellate_connection_stats(self, pop, cells[self][i], sgc,
                                             sr, size, rng + rv)
         IN  /\ last' = [op |-> "connection_stats", pop |-> pop, depth |-> 0,
                         status |-> IF r.raised = "none" THEN "returned"
                                    ELSE r.raised,
                         ret |-> r.dist,
                         todo0 |-> unresolved_cells(cells, pop),
                         real0 |-> Range(real_cells(cells, pop)),
                         size |-> r.size, self |-> self, cell |-> i,
                         sgc |-> sgc, sr |-> sr,
                         drawn |-> last.drawn + rv + r.drawn]
             /\ rng' = rng + rv + r.drawn
    /\ UNCHANGED <<sound, cells, cell_indexes, ncreate, pre_connections,
                   post_connections, stack, synapses>>

\* the seeded stimuli the driver constructs while the populations draw
DrawSounds ==
    { k \in SoundKwds :
        /\ DOMAIN k = SoundKeys
        /\ k["pip_duration"] = 2 /\ k["ramp_duration"] = 1
        /\ k["click_duration"] = 1 /\ k["f0"] = 1
        /\ k["pip_start"] = <<0, 2>> }

DrawKwds ==
    { <<>>, << <<"cf", Scalar(1)>> >>, << <<"cf", Lognorm(getfreq(1))>> >> }

\* pop.cells['sr'] of a population of npre cells
SrArrays ==
    { [k \in 1 .. npre |-> 0] : npre \in 0 .. MaxSgc }
        \cup { [k \in 1 .. 3 |-> 3] }

\* the number of calls the driver makes of the populations
MaxDraws == 2

DrawNext ==
    \/ \E cls \in {"NoisePip", "SAMNoise"}, kwds \in DrawSounds :
          Construct(cls, kwds)
    \/ ReadSound
    \/ \E size \in 1 .. 2, kwds \in DrawKwds :
          ncalls < MaxDraws /\ DrawSelect("A", size, FALSE, kwds)
    \/ \E e \in {<<"B", "A">>, <<"B", "C">>, <<"C", "A">>},
          sgc \in BOOLEAN, sr \in SrArrays :
          /\ ncalls < MaxDraws
          /\ ~sgc => sr = <<>>
          /\ DStellateStats(e[1], e[2], 0, sgc, sr)

DrawSpec == DrawInit /\ [][DrawNext]_vars

\* --------------------------------------------------------------------- properties
Real(p, i) == cells[p][i].cell # Zero

Resolved(p, i) == cells[p][i].input_resolved

\* the driver's last call was p.resolve_inputs and it returned normally
Returned(p) ==
    /\ last.op = "resolve_inputs"
    /\ last.pop = p
    /\ last.status = "returned"

\* C1: a realized cell never becomes virtual again and a cell whose
\* input_resolved is true never becomes false again, whatever is called.
C1_OneWay ==
    [][\A p \in Pops, i \in CellIds :
         /\ cells[p][i].cell # Zero => cells'[p][i].cell # Zero
         /\ cells[p][i].input_resolved => cells'[p][i].input_resolved]_vars

\* a resolved cell of a population on which create_cells was called
\* afterwards
C1_Witness ==
    /\ last.op = "create_cells"
    /\ \E i \in last.real0 : Resolved(last.pop, i) /\ Real(last.pop, i)

\* C2: for an index that is already realized, no call invokes create_cell
\* again and the stored cell object stays the same one.
C2_CreateIdempotent ==
    [][\A p \in Pops, i \in CellIds :
         cells[p][i].cell # Zero =>
            /\ cells'[p][i].cell = cells[p][i].cell
            /\ ncreate'[p][i] = ncreate[p][i]]_vars

\* create_cells has run on a population all of whose cells were realized
\* already, and each cell is still the object of its first creation
C2_Witness ==
    /\ last.op = "create_cells"
    /\ last.real0 = CellIds
    /\ \A i \in CellIds :
         /\ cells[last.pop][i].cell = CellObj(last.pop, i, 1)
         /\ ncreate[last.pop][i] = 1

\* C3: once a cell is resolved, no later call changes its connections or
\* forms another synapse onto it.
C3_ResolveOnce ==
    [][\A p \in Pops, i \in CellIds :
         cells[p][i].input_resolved =>
            /\ cells'[p][i].connections = cells[p][i].connections
            /\ synapses'[p][i] = synapses[p][i]]_vars

\* resolve_inputs has returned on a population that had, when the call
\* started, a resolved cell with wired inputs and no unresolved cell
C3_Witness ==
    /\ last.op = "resolve_inputs"
    /\ last.status = "returned"
    /\ last.todo0 = <<>>
    /\ \E i \in last.real0 :
         /\ Resolved(last.pop, i)
         /\ synapses[last.pop][i] # <<>>
         /\ \E q \in DOMAIN cells[last.pop][i].connections :
              cells[last.pop][i].connections[q] # <<>>

\* C4: the number of realized cells of a population is at most its size,
\* the size is the one it was constructed with, and every cell record's id
\* is its position in the array.
C4_SizeAndIds ==
    \A p \in Pops :
        /\ DOMAIN cells[p] = CellIds
        /\ Size(cells, p) = PopSize
        /\ Len(real_cells(cells, p)) <= Size(cells, p)
        /\ Cardinality(DOMAIN cell_indexes[p]) <= Size(cells, p)
        /\ \A i \in DOMAIN cells[p] : cells[p][i].id = i

\* a population all of whose cells are realized, some by resolution of
\* another population
C4_Witness ==
    \E p \in Pops :
        /\ \A i \in CellIds : Real(p, i)
        /\ Len(real_cells(cells, p)) = PopSize
        /\ \E q \in Pops \ {p}, i \in CellIds :
             Resolved(q, i) /\ synapses[q][i] # <<>>

\* the populations connecting to p
Preds(p) == Range(pre_connections[p])

\* the populations reached from those of S along 1 to n pre-connections
RECURSIVE ReachWithin(_, _)
ReachWithin(S, n) ==
    IF n <= 0 THEN {}
    ELSE LET up == UNION { Preds(q) : q \in S }
         IN  up \cup ReachWithin(up, n - 1)

Upstream(p) == ReachWithin({p}, Cardinality(Pops))

\* no population at or above p lies on a cycle
Acyclic(p) == \A q \in {p} \cup Upstream(p) : q \notin Upstream(q)

Max(S) == CHOOSE x \in S : \A y \in S : x >= y

\* the number of edges of the longest predecessor chain from p (Acyclic(p))
RECURSIVE LongestChain(_)
LongestChain(p) ==
    IF Preds(p) = {} THEN 0
    ELSE 1 + Max({ LongestChain(q) : q \in Preds(p) })

\* a call p.resolve_inputs(depth) recurses into p itself
Reenters(p, depth) == p \in ReachWithin({p}, depth - 1)

\* every cell that was real and unresolved when the call started is
\* resolved and has one index list per population of the pre-connections
C5_TodoResolved(p) ==
    \A i \in Range(last.todo0) :
        /\ Resolved(p, i)
        /\ cells[p][i].connections # Zero
        /\ DOMAIN cells[p][i].connections = Preds(p)

\* every cell that was virtual when the call started is unresolved and has
\* no recorded connections
C5_VirtualUntouched(p) ==
    \A i \in CellIds \ last.real0 :
        /\ ~Resolved(p, i)
        /\ cells[p][i].connections = Zero

\* C5 as stated: when P.resolve_inputs returns normally, every cell of P
\* that was real and unresolved at the start is resolved with one index
\* list per pre-connected population, and every cell of P that was virtual
\* at the start is still unresolved with no recorded connections.
C5_Original ==
    \A p \in Pops :
        Returned(p) => C5_TodoResolved(p) /\ C5_VirtualUntouched(p)

\* C5 amended: the cells virtual at the start are untouched when the call
\* does not recurse into P itself (depth = 1, or P is not reachable from
\* itself along at most depth - 1 pre-connections).
C5_Amended ==
    \A p \in Pops :
        Returned(p) =>
            /\ C5_TodoResolved(p)
            /\ ~Reenters(p, last.depth) => C5_VirtualUntouched(p)

\* a call on a self-connected population that did not recurse returned
\* after wiring a cell and realizing a cell that was virtual at its start
C5_Witness ==
    \E p \in Pops :
        /\ Returned(p)
        /\ ~Reenters(p, last.depth)
        /\ p \in Preds(p)
        /\ last.todo0 # <<>>
        /\ \E i \in CellIds \ last.real0 : Real(p, i)

C7_PartnersRealized ==
    \A p \in Pops, i \in CellIds :
        cells[p][i].connections # Zero =>
            \A q \in DOMAIN cells[p][i].connections :
                \A k \in 1 .. Len(cells[p][i].connections[q]) :
                    cells[q][cells[p][i].connections[q][k]].cell # Zero

\* after one connect, one realizing call and one resolve_inputs call, a
\* cell is wired to a cell of another population, which the resolution
\* itself has realized
C7_Witness ==
    \E p \in Pops, i \in CellIds :
        /\ Returned(p)
        /\ ncalls = 3
        /\ NEdges = 1
        /\ i \in Range(last.todo0)
        /\ \E q \in DOMAIN cells[p][i].connections \ {p} :
             /\ cells[p][i].connections[q] # <<>>
             /\ Real(q, cells[p][i].connections[q][1])

\* the activations nest as the recursion makes them: each is a call on a
\* predecessor of its caller, with the caller's depth less one, made after
\* the caller's wiring loop
NestedCalls ==
    \A j \in 1 .. Len(stack) - 1 :
        /\ stack[j].depth > 1
        /\ stack[j + 1].depth = stack[j].depth - 1
        /\ stack[j + 1].pop \in Preds(stack[j].pop)
        /\ stack[j].k > Len(stack[j].todo)

\* C8: resolve_inputs(d) with d > 1 calls resolve_inputs(d - 1) on the
\* predecessors after its wiring loop, and on an acyclic graph whose longest
\* predecessor chain from P has fewer than d edges, when the top-level call
\* returns every real cell of P and of every upstream population is
\* resolved.
C8_CascadeResolves ==
    /\ NestedCalls
    /\ \A p \in Pops :
         /\ Returned(p)
         /\ last.depth > 1
         /\ Acyclic(p)
         /\ LongestChain(p) < last.depth
         => \A q \in {p} \cup Upstream(p), i \in CellIds :
                Real(q, i) => Resolved(q, i)

\* a call with depth 3 has returned on a chain of two edges, and a cell two
\* populations upstream is realized and resolved
C8_Witness ==
    \E p \in Pops :
        /\ Returned(p)
        /\ last.depth = 3
        /\ Acyclic(p)
        /\ LongestChain(p) = 2
        /\ last.todo0 # <<>>
        /\ \E q \in Preds(p) : \E g \in Preds(q) \ {p, q} : \E i \in CellIds :
             Real(g, i) /\ Resolved(g, i)

\* an upper bound on the steps a new activation of the given depth takes
RECURSIVE StepBound(_)
StepBound(depth) ==
    PopSize + IF Recursing(depth)
              THEN NEdges * (1 + StepBound(depth - 1)) ELSE 0

\* an upper bound on the steps left to the activation f
FrameRank(f) ==
    (Len(f.todo) + 1 - f.k)
      + IF Recursing(f.depth)
        THEN (Len(pre_connections[f.pop]) + 1 - f.r)
                * (1 + StepBound(f.depth - 1))
        ELSE 0

\* an upper bound on the steps left to the running call
Rank == SumSeq([j \in 1 .. Len(stack) |-> FrameRank(stack[j])])

\* C9: resolve_inputs(depth) terminates on every graph: the steps left to
\* the running call are bounded by a natural number that every step
\* decreases and that is zero only when the call is over; the cells an
\* activation resolves are fixed when it starts, and no activation has a
\* depth below 1.
C9_Terminates ==
    [][/\ Rank >= 0
       /\ Rank = 0 <=> Idle
       /\ Len(stack) <= last.depth
       /\ \A j \in 1 .. Len(stack) : stack[j].depth >= 1
       /\ ~Idle =>
            /\ Rank' < Rank
            /\ Rank' >= 0
            /\ \A j \in 1 .. Min({Len(stack), Len(stack')}) :
                 /\ stack'[j].pop = stack[j].pop
                 /\ stack'[j].depth = stack[j].depth
                 /\ stack'[j].todo = stack[j].todo]_vars

\* a call with depth above 1 has returned on a population that lies on a
\* cycle, after resolving a cell that the call itself had realized
C9_Witness ==
    \E p \in Pops :
        /\ Returned(p)
        /\ last.depth > 1
        /\ p \in Upstream(p)
        /\ last.todo0 # <<>>
        /\ \E i \in CellIds \ last.real0 : Real(p, i) /\ Resolved(p, i)

\* the populations with a synapse onto cell i of p
SynapsePops(p, i) == { synapses[p][i][k].pop : k \in 1 .. Len(synapses[p][i]) }

\* cell i of p has no entry for q in its connections and no synapse from q
NoInputFrom(p, i, q) ==
    /\ cells[p][i].connections # Zero => q \notin DOMAIN cells[p][i].connections
    /\ q \notin SynapsePops(p, i)

\* C10: a cell resolved before the edge B -> A was declared has no entry
\* for B and no synapse from B, and keeps neither through every later
\* connect and resolve_inputs call.
C10_LateEdgeIgnored ==
    [][\A p \in Pops, i \in CellIds, q \in Pops :
         /\ Resolved(p, i) /\ q \notin Preds(p) => NoInputFrom(p, i, q)
         /\ Resolved(p, i) /\ NoInputFrom(p, i, q) =>
                /\ cells'[p][i].input_resolved
                /\ cells'[p][i].connections = cells[p][i].connections
                /\ q \notin { synapses'[p][i][k].pop :
                                k \in 1 .. Len(synapses'[p][i]) }]_vars

\* resolve_inputs has returned on a population with a predecessor declared
\* after one of its cells was resolved: the cell has no input from it
C10_Witness ==
    \E p \in Pops, i \in CellIds, q \in Pops :
        /\ Returned(p)
        /\ i \in last.real0
        /\ Resolved(p, i)
        /\ q \in Preds(p)
        /\ NoInputFrom(p, i, q)

\* the positions in self._pre_connections of the populations whose
\* convergence or convergence_range lookup fails for the cell
FailingLookups(self, i) ==
    { j \in 1 .. Len(pre_connections[self]) :
        connection_stats(self, pre_connections[self][j],
                         cells[self][i]).raised # "none" }

\* s is t or a proper beginning of t
IsPrefix(s, t) == Len(s) <= Len(t) /\ SubSeq(t, 1, Len(s)) = s

\* C11: when the convergence or convergence_range lookup fails while cell c
\* is being wired, the call ends with TypeError, c is left unresolved, its
\* connections hold the lists of the predecessors processed before the
\* failing one and the synapses formed from them are kept, and no other
\* cell loses its resolution, its connections or its synapses.
C11_AbortKeepsWiring ==
    [][/\ (~Idle /\ Top.k <= Len(Top.todo)
            /\ FailingLookups(Top.pop, Top.todo[Top.k]) # {})
          => last'.status = "TypeError"
       /\ (~Idle /\ last'.status # "running" /\ last'.status # "returned")
          => LET self == Top.pop
                 c == Top.todo[Top.k]
                 pre == pre_connections[self]
                 before == { pre[m] : m \in 1 .. Min(FailingLookups(self, c)) - 1 }
             IN  /\ last'.status = "TypeError"
                 /\ FailingLookups(self, c) # {}
                 /\ stack' = <<>>
                 /\ ~cells'[self][c].input_resolved
                 /\ cells'[self][c].cell = cells[self][c].cell
                 /\ DOMAIN cells'[self][c].connections = before
                 /\ \A q \in before :
                      Len(cells'[self][c].connections[q]) \in StatSizes(q, self)
                 /\ IsPrefix(synapses[self][c], synapses'[self][c])
                 /\ { synapses'[self][c][k].pop :
                        k \in Len(synapses[self][c]) + 1
                                .. Len(synapses'[self][c]) } \subseteq before
                 /\ \A q \in before :
                      cells'[self][c].connections[q] # <<>> =>
                        \E k \in Len(synapses[self][c]) + 1
                                  .. Len(synapses'[self][c]) :
                            synapses'[self][c][k].pop = q
                 /\ \A p \in Pops, i \in CellIds :
                      <<p, i>> # <<self, c>> =>
                        /\ cells'[p][i].input_resolved = cells[p][i].input_resolved
                        /\ cells'[p][i].connections = cells[p][i].connections
                        /\ synapses'[p][i] = synapses[p][i]
                        /\ Real(p, i) => cells'[p][i].cell = cells[p][i].cell]_vars

\* resolve_inputs ended with TypeError while wiring a cell from its second
\* predecessor: the cell is unresolved and keeps the list and the synapses
\* of the first
C11_Witness ==
    /\ last.op = "resolve_inputs"
    /\ last.status = "TypeError"
    /\ \E c \in Range(last.todo0) : \E q \in Preds(last.pop) :
         /\ ~Resolved(last.pop, c)
         /\ cells[last.pop][c].connections # Zero
         /\ DOMAIN cells[last.pop][c].connections = {q}
         /\ cells[last.pop][c].connections[q] # <<>>
         /\ synapses[last.pop][c] # <<>>
         /\ Preds(last.pop) # {q}

\* C12: get_cell(i, create=False) on a virtual cell returns the 0 of the
\* cell slot and changes nothing; get_cell(i, create=True) returns the
\* realized cell of index i and changes at most the slot of cell i, its
\* entry in the cell index and its creation count.
C12_GetCellFrame ==
    [][\A p \in Pops, i \in CellIds, create \in BOOLEAN :
         (ncalls' # ncalls /\ last'.op = "get_cell" /\ last'.pop = p
            /\ GetCell(p, i, create)) =>
            /\ UNCHANGED <<pre_connections, post_connections, stack, synapses>>
            /\ (~create /\ ~Real(p, i)) =>
                  /\ last'.ret = Zero
                  /\ UNCHANGED <<cells, cell_indexes, ncreate>>
            /\ create =>
                  /\ last'.ret # Zero
                  /\ last'.ret = cells'[p][i].cell
                  /\ Real(p, i) => last'.ret = cells[p][i].cell
                  /\ cell_indexes'[p][last'.ret] = i
                  /\ cells'[p][i].input_resolved = cells[p][i].input_resolved
                  /\ cells'[p][i].connections = cells[p][i].connections
                  /\ \A q \in Pops, j \in CellIds :
                       <<q, j>> # <<p, i>> =>
                          /\ cells'[q][j] = cells[q][j]
                          /\ ncreate'[q][j] = ncreate[q][j]
                  /\ \A q \in Pops \ {p} :
                       cell_indexes'[q] = cell_indexes[q]]_vars

\* get_cell has realized a virtual cell of a population that has another
\* cell, realized and resolved before the call
C12_Witness ==
    /\ last.op = "get_cell"
    /\ last.ret # Zero
    /\ last.ret.idx \notin last.real0
    /\ \E j \in last.real0 : Resolved(last.pop, j)

\* every edge is recorded as often on the source as on the target
EdgesMatch ==
    \A p \in Pops, q \in Pops :
        Count(post_connections[p], q) = Count(pre_connections[q], p)

\* C13: the number of occurrences of Q in P's post-connections equals the
\* number of occurrences of P in Q's pre-connections, and a step that
\* declares an edge realizes no cell, changes no cell record and forms no
\* synapse.
C13_ConnectSymbolic ==
    [][/\ EdgesMatch
       /\ EdgesMatch'
       /\ (pre_connections' # pre_connections
             \/ post_connections' # post_connections)
          => /\ last'.op = "connect"
             /\ UNCHANGED <<cells, cell_indexes, ncreate, synapses, stack>>]_vars

\* connect has declared the same edge twice onto a population that has a
\* realized and resolved cell
C13_Witness ==
    /\ last.op = "connect"
    /\ \E q \in Pops :
         /\ Count(post_connections[last.pop], q) = 2
         /\ Count(pre_connections[q], last.pop) = 2
         /\ \E i \in CellIds : Real(q, i) /\ Resolved(q, i)

\* the call of SelectSpec is over
SelDone == last.op = "select" /\ last.status # "called"

\* the populations are as they were when the call started
Untouched == Heap = SelStart(last.real0)

\* C14: select with no criteria raises TypeError, returns no index and
\* leaves the population unchanged, also with create=True.
C14_NoCriteria ==
    (SelDone /\ last.kwds = <<>>) =>
        /\ last.status = "TypeError"
        /\ last.ret = <<>>
        /\ Untouched

\* select(size, create=True) without criteria was called for at least one
\* cell and raised
C14_Witness ==
    /\ SelDone
    /\ last.kwds = <<>>
    /\ last.create
    /\ last.size > 0
    /\ last.status = "TypeError"
    /\ last.real0 # {}

\* the values and the combined mass the call of SelectSpec works on
SelVals == FieldCf(cells, last.pop)

SelDist == FullDist(SelVals, last.kwds)

\* the call took the nearest-match branch / the random branch
NearestMode == SelDone /\ last.status = "returned" /\ SelDist.nearest # <<>>

RandomMode == SelDone /\ last.status = "returned" /\ SelDist.nearest = <<>>

\* the indexes of the cells of nonzero combined mass
NonZero == { k - 1 : k \in { j \in 1 .. Len(SelVals) : SelDist.w[j] # 0 } }

\* |field value - target| of cell i
Distance(i) == Abs(SelVals[i + 1] - SelDist.nearest[1])

\* the picks ret[from..to] are pairwise distinct cells of S in ascending
\* distance order, and no other cell of S is nearer than one of them
ClosestOf(S, ret, from, to) ==
    /\ \A k \in from .. to : ret[k] \in S
    /\ \A k \in from .. to, m \in from .. to : k # m => ret[k] # ret[m]
    /\ \A k \in from .. to - 1 : Distance(ret[k]) <= Distance(ret[k + 1])
    /\ \A i \in S \ { ret[k] : k \in from .. to } :
         \A k \in from .. to : Distance(ret[k]) <= Distance(i)

\* C15: in nearest-match mode, when at least size cells have nonzero
\* combined mass, select returns size pairwise distinct indexes of
\* nonzero-mass cells, in ascending distance order, none farther from the
\* target than a nonzero-mass cell that was not returned.
C15_NearestNonZero ==
    (NearestMode /\ Cardinality(NonZero) >= last.size) =>
        /\ Len(last.ret) = last.size
        /\ ClosestOf(NonZero, last.ret, 1, last.size)

\* two cells were returned although a cell of zero mass is nearer to the
\* target than both
C15_Witness ==
    /\ NearestMode
    /\ last.size = 2
    /\ Cardinality(NonZero) >= 2
    /\ \E z \in (0 .. SelSize - 1) \ NonZero :
         \A k \in 1 .. 2 : Distance(z) < Distance(last.ret[k])

\* C16: in nearest-match mode, when fewer cells have nonzero combined mass
\* than size (and the population has size cells at least), select returns
\* size indexes: first every nonzero-mass cell, nearest first, then the
\* nearest of the zero-mass cells.
C16_DegradeClosest ==
    (NearestMode /\ Cardinality(NonZero) < last.size
        /\ last.size <= Len(SelVals)) =>
        /\ Len(last.ret) = last.size
        /\ ClosestOf(NonZero, last.ret, 1, Cardinality(NonZero))
        /\ ClosestOf((0 .. Len(SelVals) - 1) \ NonZero, last.ret,
                     Cardinality(NonZero) + 1, last.size)

\* C17: in random mode, when at least size cells have nonzero combined
\* mass, no index is returned twice, whatever the uniform values (here
\* even with every uniform value above 0).
C17_NoRepeats ==
    (RandomMode /\ last.size <= Cardinality(NonZero)
        /\ \A k \in 1 .. Len(last.uvals) : last.uvals[k] > 0) =>
        \A k \in 1 .. Len(last.ret), m \in 1 .. Len(last.ret) :
            k # m => last.ret[k] # last.ret[m]

\* C18: when select(..., create=True) returns, every returned index is
\* realized; select(..., create=False) realizes no cell and changes no cell
\* record; neither changes a realized cell's object, a cell's
\* input_resolved or connections, or a cell that was not selected.
C18_SelectCreate ==
    SelDone =>
        /\ (last.create /\ last.status = "returned") =>
              \A k \in 1 .. Len(last.ret) : Real(last.pop, last.ret[k])
        /\ ~last.create => Untouched
        /\ \A q \in Pops, i \in 0 .. SelSize - 1 :
             /\ [cells[q][i] EXCEPT !.cell = Zero] = CellRec(i)
             /\ (q # last.pop \/ i \notin Range(last.ret) \/ i \in last.real0)
                   => /\ cells[q][i] = SelStart(last.real0).cells[q][i]
                      /\ ncreate[q][i] = SelStart(last.real0).ncreate[q][i]

\* select(..., create=True) has returned a cell that it realized and a
\* cell that was realized before the call
C18_Witness ==
    /\ SelDone
    /\ last.create
    /\ last.status = "returned"
    /\ \E k \in 1 .. Len(last.ret) :
         last.ret[k] \notin last.real0 /\ Real(last.pop, last.ret[k])
    /\ \E k \in 1 .. Len(last.ret) : last.ret[k] \in last.real0

\* C19: a stimulus whose generate() was called had every parameter that
\* generate() reads among its constructor arguments, and generate() did not
\* fail on an absent parameter.
C19_EagerValidation ==
    sound.raisedby = "generate" =>
        /\ Reads(sound.cls) \subseteq DOMAIN sound.kwds
        /\ sound.raised # "KeyError"

\* C20: a TonePip whose arguments are all given, with pip_duration at
\* least 2 * ramp_duration and f0 = 0.5 * rate, is rejected with
\* ValueError.
C20_F0AtHalfRate ==
    (/\ sound.cls = "TonePip"
     /\ sound.raisedby = "__init__"
     /\ Required("TonePip") \subseteq DOMAIN sound.kwds
     /\ sound.kwds["pip_duration"] >= 2 * sound.kwds["ramp_duration"]
     /\ 2 * sound.kwds["f0"] = sound.kwds["rate"])
    => (sound.status = "rejected" /\ sound.raised = "ValueError")

\* C21: whatever reads of its sound the driver makes, by the property or by
\* measure_dbspl, generate() has run at most once and the read returned the
\* cached array
C21_GenerateOnce ==
    /\ sound.ngenerate <= 1
    /\ (sound.nreads > 0 /\ sound._sound # <<>>) => sound.ret = sound._sound

\* C22: create(**s.key()) builds a stimulus of the class of s, with the key
\* of s, whose sound is the sound of s
C22_RoundTrip ==
    [][(sound.copy = <<>> /\ sound'.copy # <<>>) =>
         LET c == sound'.copy[1] IN
         /\ c.status = "constructed"
         /\ c.cls = sound.cls
         /\ Key(c) = Key(sound)
         /\ sound_get(c).ret = sound_get(sound).ret]_vars

\* a seeded stimulus that has generated two pips was recreated
C22_Witness ==
    /\ sound.cls = "NoisePip"
    /\ sound.copy # <<>>
    /\ sound._sound # <<>>
    /\ Len(sound.opts["pip_start"]) = 2
    /\ sound_get(sound.copy[1]).ret = sound._sound

\* C23: the samples of a click train that are not zero are those of the
\* ranges [floor(start*rate), floor(start*rate) + floor(click_duration*rate))
\* of its click starts
C23_ClickRanges ==
    (sound.cls = "ClickTrain" /\ sound._sound # <<>>) =>
        LET o == sound.opts
            from(k) == (o["click_starts"][k] * o["rate"]) \div TimeDen
            len == (o["click_duration"] * o["rate"]) \div TimeDen
        IN  \A i \in 1 .. Len(sound._sound) :
               (sound._sound[i] # Silence) <=>
                   \E k \in 1 .. Len(o["click_starts"]) :
                       from(k) <= i - 1 /\ i - 1 < from(k) + len

\* a train of two clicks with samples of both kinds
C23_Witness ==
    /\ sound.cls = "ClickTrain"
    /\ sound._sound # <<>>
    /\ Len(sound.opts["click_starts"]) = 2
    /\ \E i, j \in 1 .. Len(sound._sound) :
          sound._sound[i] = Silence /\ sound._sound[j] # Silence

\* C25: key() returns the parameter set the stimulus was constructed with,
\* also when the time axis and the sound have been generated
C25_KeyImmutable ==
    sound.status = "constructed" =>
        Key(sound) = Key(New(sound.cls, sound.kwds))

\* C30: generate() of an accepted TonePip or NoisePip that has every
\* parameter it reads returns num_samples samples without raising
C30_PipCompletes ==
    (/\ sound.cls \in {"TonePip", "NoisePip"}
     /\ sound.raisedby = "generate"
     /\ Reads(sound.cls) \subseteq DOMAIN sound.kwds)
    => (/\ sound.raised = "none"
        /\ Len(sound._sound) = NumSamples(sound.opts))

\* the noise values of a waveform
NoiseTerms(wave) ==
    UNION { { wave[i][j].src.x : j \in 1 .. Len(wave[i]) } :
              i \in 1 .. Len(wave) }

\* C24: generating a seeded stimulus draws from a generator of its own,
\* set up from the seed, and leaves np.random as it was: whatever the
\* order of stimulus reads and population calls, each population call
\* draws the values that follow those the population calls before it drew
C24_PrivateSource ==
    [][/\ sound' # sound => rng' = rng
       /\ (sound'.cls = "NoisePip" /\ sound'._sound # <<>>) =>
             \A x \in NoiseTerms(sound'._sound) :
                 x.seed = sound'.opts["seed"] /\ x.k >= 1
       /\ rng' = last'.drawn
       /\ (ncalls' # ncalls /\ last'.op = "select") =>
             last'.uvals = Sort([k \in 1 .. Len(last'.uvals) |->
                                   Uniform(last.drawn + k)])]_vars

\* a noise stimulus has been generated and two population calls have drawn
C24_Witness ==
    /\ sound.cls = "NoisePip"
    /\ sound._sound # <<>>
    /\ NoiseTerms(sound._sound) # {}
    /\ ncalls >= 2
    /\ last.op = "select"
    /\ last.uvals # <<>>
    /\ last.drawn > Len(last.uvals)

\* what DStellate.connection_stats adds for an SGC predecessor: one more
\* criterion, 'sr', with a weight 0 or 1 for each cell of the predecessor
SrAdded ==
    /\ last.status = "returned"
    /\ Len(last.ret) = 2
    /\ SubSeq(last.ret, 1, 1)
          = connection_stats(last.self, last.pop,
                             cells[last.self][last.cell]).dist
    /\ last.ret[2][1] = "sr"
    /\ last.ret[2][2].kind = "ndarray"
    /\ DOMAIN last.ret[2][2].arr = 1 .. Len(last.sr)
    /\ \A k \in 1 .. Len(last.sr) : last.ret[2][2].arr[k] \in {0, 1}
    /\ last.size \in StatSizes(last.pop, last.self)

\* the call returned what the default policy returns
DefaultReturned ==
    /\ last.status = "returned"
    /\ last.ret = connection_stats(last.self, last.pop,
                                   cells[last.self][last.cell]).dist
    /\ last.size \in StatSizes(last.pop, last.self)

\* the default policy has the data it looks up
DefaultDefined ==
    connection_stats(last.self, last.pop,
                     cells[last.self][last.cell]).raised = "none"

\* C26: for an SGC predecessor of any size DStellate's connection_stats
\* returns the default result and an 'sr' weight array with an entry 0 or 1
\* for each SGC cell, without raising; for another predecessor it returns
\* the default result
C26_SrWeights ==
    (last.op = "connection_stats" /\ DefaultDefined) =>
        IF last.sgc THEN SrAdded ELSE DefaultReturned

\* the indexes recorded for population q in the connections of cell i of p
Recorded(p, i, q) ==
    IF cells[p][i].connections # Zero
          /\ q \in DOMAIN cells[p][i].connections
    THEN cells[p][i].connections[q]
    ELSE <<>>

\* the number of synapses cell j of q has made onto cell i of p
NSynapses(p, i, q, j) ==
    Cardinality({ k \in 1 .. Len(synapses[p][i]) :
                    synapses[p][i][k].pop = q /\ synapses[p][i][k].idx = j })

\* C27: in every state, the synapses made from cells of Q onto a cell are
\* those of the indexes recorded in the cell's connections[Q], each as
\* often as it is recorded
C27_SynapsesRecorded ==
    \A p \in Pops, q \in Pops :
        \A i \in CellIds, j \in CellIds :
            NSynapses(p, i, q, j) = Count(Recorded(p, i, q), j)

\* C28: when P.resolve_inputs(depth) has returned normally, P has no real
\* cell with input_resolved = false
C28_AllResolved ==
    \A p \in Pops : Returned(p) => unresolved_cells(cells, p) = <<>>

\* C29: in random mode select returns no cell of zero combined mass,
\* whatever the uniform values, and when some cell has nonzero mass it
\* returns size indexes in non-decreasing order
C29_RandomNonZero ==
    RandomMode =>
        /\ \A k \in 1 .. Len(last.ret) : last.ret[k] \in NonZero
        /\ (NonZero # {}) =>
              /\ Len(last.ret) = last.size
              /\ \A k \in 1 .. Len(last.ret) - 1 :
                    last.ret[k] <= last.ret[k + 1]

============================================================================
